---- MODULE Spec2Model ----
(***************************************************************************)
(* Model of dmt_smtp.smtp.EmailSender (src/dmt_smtp/smtp.py): the          *)
(* constructor with its SMTP and IMAP legs, send(), close_connection() and *)
(* the sent-folder resolver.  One connector object, one caller.            *)
(*                                                                         *)
(* Text is modelled as a sequence of one-character strings, so that        *)
(* lower(), "in" and split() are computed and not assumed.                 *)
(***************************************************************************)
EXTENDS Integers, Sequences, FiniteSets, TLC

VARIABLES
    port,         \* self.port
    server,       \* self.server: "unset" (attribute not assigned yet), "None", "SMTP", "SMTP_SSL"
    imap,         \* self.imap:   "unset", "None", "IMAP4_SSL"
    local_server, \* the local variable `server` of _connect_smtp
    smtp_sock,    \* the SMTP object's socket is open (server.sock is truthy)
    imap_sock,    \* the IMAP object's socket is open
    ipc,          \* position of the constructor
    spc,          \* position of send()
    cpc,          \* position of close_connection()
    log,          \* the library calls made by the operation in progress (or the last one), in order
    raised,       \* the exception that left the last operation, NoExc if it returned
    result,       \* the SMTPResponse returned by the last send(), NoResult otherwise
    to_email,     \* the to_email argument of the send() in progress
    sent_folder,  \* the local variable sent_folder of send()
    nsends,       \* number of send() calls made so far
    op,           \* the operation in progress, or the last one: "none", "init", "send", "close"
    prev_op,      \* the operation called before op
    at_call,      \* self.server, self.imap and server.sock as they were when op was called
    url           \* self.url

vars == << port, server, imap, local_server, smtp_sock, imap_sock, ipc, spc, cpc,
           log, raised, result, to_email, sent_folder, nsends, op, prev_op, at_call, url >>

----------------------------------------------------------------------------
(* Bounds and inputs *)

MaxSends == 2

Port587 == 587
Port465 == 465
ImapPort == 993
ErrorCode == 500

\* The ports a caller may pass: the two valid ones and three invalid ones.
Ports == {Port587, Port465, 25, 0, ImapPort}

\* The exception types a library call may raise.  SMTPException is the one
\* _connect_smtp names; OSError and IMAP4Error stand for every other Exception.
ExcKinds == {"SMTPException", "OSError", "IMAP4Error"}

\* A fault of a library call on an established session: the exception type and
\* whether the library dropped the socket before raising.
Faults == [kind : ExcKinds, dropped : BOOLEAN]

Ok == [kind |-> "ok", dropped |-> FALSE]

Outcomes == {Ok} \cup Faults

\* A fault of a call that opens a session: nothing was opened.
OpenOutcomes == {Ok} \cup [kind : ExcKinds, dropped : {TRUE}]

Recipients == {"ana@example.com", "bob@example.org"}

Login == "me@example.com"

NoExc == [kind |-> "none", msg |-> "none", cause |-> "none"]

\* No SMTPResponse was returned (no send() yet, or the last send() raised).
NoResult == [returned |-> FALSE]

Call(name, out, arg) == [call |-> name, out |-> out, arg |-> arg]

NoArg == << >>

----------------------------------------------------------------------------
(* Text: a str is a sequence of one-character strings *)

UpperChars == << "A", "B", "C", "D", "E", "F", "G", "H", "I", "J", "K", "L", "M",
                 "N", "O", "P", "Q", "R", "S", "T", "U", "V", "W", "X", "Y", "Z" >>

LowerChars == << "a", "b", "c", "d", "e", "f", "g", "h", "i", "j", "k", "l", "m",
                 "n", "o", "p", "q", "r", "s", "t", "u", "v", "w", "x", "y", "z" >>

LowerChar(c) ==
    IF \E i \in DOMAIN UpperChars : UpperChars[i] = c
    THEN LowerChars[CHOOSE i \in DOMAIN UpperChars : UpperChars[i] = c]
    ELSE c

\* str.lower()
lower(s) == [i \in 1..Len(s) |-> LowerChar(s[i])]

\* Python's `sub in s`
Contains(sub, s) ==
    \E i \in 0..(Len(s) - Len(sub)) : SubSeq(s, i + 1, i + Len(sub)) = sub

\* s.split(d): the scan runs left to right and a match consumes its characters.
RECURSIVE SplitFrom(_, _, _, _)
SplitFrom(s, d, i, start) ==
    IF i + Len(d) - 1 > Len(s)
    THEN << SubSeq(s, start, Len(s)) >>
    ELSE IF SubSeq(s, i, i + Len(d) - 1) = d
    THEN << SubSeq(s, start, i - 1) >> \o SplitFrom(s, d, i + Len(d), i + Len(d))
    ELSE SplitFrom(s, d, i + 1, start)

split(s, d) == SplitFrom(s, d, 1, 1)

\* s.replace(old, new): every occurrence, left to right, a match consumes
\* its characters.
RECURSIVE ReplaceFrom(_, _, _, _)
ReplaceFrom(s, old, new, i) ==
    IF i > Len(s)
    THEN << >>
    ELSE IF i + Len(old) - 1 <= Len(s) /\ SubSeq(s, i, i + Len(old) - 1) = old
    THEN new \o ReplaceFrom(s, old, new, i + Len(old))
    ELSE << s[i] >> \o ReplaceFrom(s, old, new, i + 1)

replace(s, old, new) == ReplaceFrom(s, old, new, 1)

SmtpWord == << "s", "m", "t", "p" >>

ImapWord == << "i", "m", "a", "p" >>

\* smtp.py:39: imap_url = self.url.replace("smtp", "imap")
imap_url(u) == replace(u, SmtpWord, ImapWord)

\* The host names a caller may pass as url.
Urls == { << "s", "m", "t", "p", ".", "e", "x", "a", "m", "p", "l", "e", ".", "c", "o", "m" >>,
          << "s", "m", "t", "p", "s", "m", "t", "p", ".", "f", "o", "o" >>,
          << "m", "a", "i", "l", ".", "e", "x", "a", "m", "p", "l", "e", ".", "c", "o", "m" >>,
          << "s", "m", "t", "p", ".", "m", "y", "s", "m", "t", "p", ".", "i", "o" >> }

\* Python's None where a str is expected: a one-element sequence that is no text.
PyNone == << "None" >>

----------------------------------------------------------------------------
(* The sent-folder resolver: _find_sent_folder *)

\* smtp.py:141-148: the provider table, in definition order.
email_folders == <<
    [provider |-> << "g", "m", "a", "i", "l" >>, folder |-> << "\"", "[", "G", "m", "a", "i", "l", "]", "/", "S", "e", "n", "t", " ", "M", "a", "i", "l", "\"" >>],
    [provider |-> << "y", "a", "h", "o", "o" >>, folder |-> << "S", "e", "n", "t" >>],
    [provider |-> << "o", "u", "t", "l", "o", "o", "k" >>, folder |-> << "\"", "[", "O", "u", "t", "l", "o", "o", "k", "]", "/", "S", "e", "n", "t", "\"" >>],
    [provider |-> << "h", "o", "t", "m", "a", "i", "l" >>, folder |-> << "\"", "[", "H", "o", "t", "m", "a", "i", "l", "]", "/", "S", "e", "n", "t", "\"" >>],
    [provider |-> << "a", "o", "l" >>, folder |-> << "S", "e", "n", "t" >>],
    [provider |-> << "i", "c", "l", "o", "u", "d" >>, folder |-> << "S", "e", "n", "t", " ", "M", "e", "s", "s", "a", "g", "e", "s" >>] >>

SentWord == << "s", "e", "n", "t" >>

\* smtp.py:161: the delimiter of the fallback split, ' "." '
Delimiter == << " ", "\"", ".", "\"", " " >>

\* Mutant of ProviderFolder: the provider is looked up in the name as it
\* is, not in its lower() form.
RECURSIVE ProviderFolderCaseSensitive(_, _)
ProviderFolderCaseSensitive(mailbox_name, k) ==
    IF k > Len(email_folders)
    THEN PyNone
    ELSE IF Contains(email_folders[k].provider, mailbox_name)
    THEN email_folders[k].folder
    ELSE ProviderFolderCaseSensitive(mailbox_name, k + 1)

\* smtp.py:156-159: the inner loop; the first provider found in the lowered
\* name gives the folder, None when there is none.
RECURSIVE ProviderFolder(_, _)
ProviderFolder(mailbox_name, k) ==
    IF k > Len(email_folders)
    THEN PyNone
    ELSE IF Contains(email_folders[k].provider, lower(mailbox_name))
    THEN email_folders[k].folder
    ELSE ProviderFolder(mailbox_name, k + 1)

\* Mutant of FolderOf: the fallback takes the first segment of the split.
FolderOfFirstSegment(mailbox_name) ==
    LET hit == ProviderFolder(mailbox_name, 1)
        parts == split(mailbox_name, Delimiter)
    IN  IF hit = PyNone \/ hit = << >> THEN parts[1] ELSE hit

\* smtp.py:160-161: `if not sent_folder`: the last segment of the split.
FolderOf(mailbox_name) ==
    LET hit == ProviderFolder(mailbox_name, 1)
        parts == split(mailbox_name, Delimiter)
    IN  IF hit = PyNone \/ hit = << >> THEN parts[Len(parts)] ELSE hit

Returns(v) == [raises |-> FALSE, value |-> v]
Raises(e) == [raises |-> TRUE, value |-> e]

\* smtp.py:151-163: the loop over the listing.  An entry that is None (what
\* imaplib gives for a listing without entries) has no decode().
RECURSIVE ScanMailboxes(_, _)
ScanMailboxes(mailboxes, i) ==
    IF i > Len(mailboxes)
    THEN Returns(PyNone)
    ELSE IF mailboxes[i] = PyNone
    THEN Raises("AttributeError")
    ELSE IF Contains(SentWord, lower(mailboxes[i]))
    THEN Returns(FolderOf(mailboxes[i]))
    ELSE ScanMailboxes(mailboxes, i + 1)

find_sent_folder(mailboxes) == ScanMailboxes(mailboxes, 1)

\* The listings the IMAP server may answer with in send().
Inbox == << "(", ")", " ", "\"", "/", "\"", " ", "\"", "I", "N", "B", "O", "X", "\"" >>
GmailSent == << "(", ")", " ", "\"", "/", "\"", " ", "\"", "[", "G", "m", "a", "i", "l", "]", "/", "S", "e", "n", "t", " ", "M", "a", "i", "l", "\"" >>
DotSent == << "(", ")", " ", "\"", ".", "\"", " ", "\"", "S", "e", "n", "t", " ", "I", "t", "e", "m", "s", "\"" >>

Listings == { << Inbox, GmailSent >>, << Inbox, DotSent, GmailSent >>,
              << Inbox >>, << PyNone >> }

----------------------------------------------------------------------------
(* The constructor: __init__, _connect_smtp, _connect_imap *)

\* Mutant of ConnectSmtpExcept: ValueError is not in the except tuple's
\* conversion and leaves as it is.
ConnectSmtpExceptPassesValueError(e) ==
    IF e = "ValueError"
    THEN [kind |-> "ValueError", msg |-> "Porta SMTP invalida. Use 587 ou 465.", cause |-> "none"]
    ELSE IF e = "SMTPException"
    THEN [kind |-> "ConnectionError", msg |-> "Falha ao conectar ao servidor SMTP", cause |-> e]
    ELSE [kind |-> "ConnectionError", msg |-> "Erro inesperado ao conectar ao servidor SMTP", cause |-> e]

\* smtp.py:65-68: both except clauses of _connect_smtp raise ConnectionError
\* from the caught exception e.
ConnectSmtpExcept(e) ==
    IF e \in {"SMTPException", "ValueError"}
    THEN [kind |-> "ConnectionError", msg |-> "Falha ao conectar ao servidor SMTP", cause |-> e]
    ELSE [kind |-> "ConnectionError", msg |-> "Erro inesperado ao conectar ao servidor SMTP", cause |-> e]

\* Mutant of ConnectImapExcept: the caught exception is raised again as it is.
ConnectImapExceptReraises(e) ==
    [kind |-> e, msg |-> "Falha ao conectar ao servidor IMAP", cause |-> "none"]

\* smtp.py:44-45: the except clause of _connect_imap.
ConnectImapExcept(e) ==
    [kind |-> "ConnectionError", msg |-> "Falha ao conectar ao servidor IMAP", cause |-> e]

Idle == spc = "idle" /\ cpc = "idle"

\* The handles an operation finds when it is called.
Handles == [server |-> server, imap |-> imap, sock |-> smtp_sock]

\* smtp.py:22-28: EmailSender(url, port, login, password) is called.
New(p, u) ==
    /\ ipc = "none"
    /\ port' = p
    /\ url' = u
    /\ op' = "init"
    /\ prev_op' = op
    /\ at_call' = Handles
    /\ ipc' = "connect_smtp"
    /\ UNCHANGED << server, imap, local_server, smtp_sock, imap_sock, spc, cpc,
                    log, raised, result, to_email, sent_folder, nsends >>

\* Mutant of SmtpOpen: every port but 587 is taken for implicit TLS.
SmtpOpenAnyPort(f) ==
    /\ ipc = "connect_smtp"
    /\ IF port = Port587
       THEN /\ log' = Append(log, Call("SMTP", f.kind, NoArg))
            /\ IF f = Ok
               THEN /\ local_server' = "SMTP"
                    /\ smtp_sock' = TRUE
                    /\ ipc' = "starttls"
                    /\ UNCHANGED raised
               ELSE /\ raised' = ConnectSmtpExcept(f.kind)
                    /\ ipc' = "failed"
                    /\ UNCHANGED << local_server, smtp_sock >>
       ELSE /\ log' = Append(log, Call("SMTP_SSL", f.kind, NoArg))
            /\ IF f = Ok
               THEN /\ local_server' = "SMTP_SSL"
                    /\ smtp_sock' = TRUE
                    /\ ipc' = "smtp_login"
                    /\ UNCHANGED raised
               ELSE /\ raised' = ConnectSmtpExcept(f.kind)
                    /\ ipc' = "failed"
                    /\ UNCHANGED << local_server, smtp_sock >>
    /\ UNCHANGED << op, prev_op, at_call, url, port, server, imap, imap_sock, spc, cpc, result, to_email,
                    sent_folder, nsends >>

\* Mutant of SmtpOpen: on port 587 the login follows the plain connect, the
\* starttls() call is missing.
SmtpOpenSkipsStartTls(f) ==
    /\ ipc = "connect_smtp"
    /\ IF port = Port587
       THEN /\ log' = Append(log, Call("SMTP", f.kind, NoArg))
            /\ IF f = Ok
               THEN /\ local_server' = "SMTP"
                    /\ smtp_sock' = TRUE
                    /\ ipc' = "smtp_login"
                    /\ UNCHANGED raised
               ELSE /\ raised' = ConnectSmtpExcept(f.kind)
                    /\ ipc' = "failed"
                    /\ UNCHANGED << local_server, smtp_sock >>
       ELSE IF port = Port465
       THEN /\ log' = Append(log, Call("SMTP_SSL", f.kind, NoArg))
            /\ IF f = Ok
               THEN /\ local_server' = "SMTP_SSL"
                    /\ smtp_sock' = TRUE
                    /\ ipc' = "smtp_login"
                    /\ UNCHANGED raised
               ELSE /\ raised' = ConnectSmtpExcept(f.kind)
                    /\ ipc' = "failed"
                    /\ UNCHANGED << local_server, smtp_sock >>
       ELSE /\ raised' = ConnectSmtpExcept("ValueError")
            /\ ipc' = "failed"
            /\ UNCHANGED << log, local_server, smtp_sock >>
    /\ UNCHANGED << op, prev_op, at_call, url, port, server, imap, imap_sock, spc, cpc, result, to_email,
                    sent_folder, nsends >>

\* smtp.py:53-59: the port decides the mode; any other port raises ValueError
\* before a library call is made.
SmtpOpen(f) ==
    /\ ipc = "connect_smtp"
    /\ IF port = Port587
       THEN /\ log' = Append(log, Call("SMTP", f.kind, NoArg))
            /\ IF f = Ok
               THEN /\ local_server' = "SMTP"
                    /\ smtp_sock' = TRUE
                    /\ ipc' = "starttls"
                    /\ UNCHANGED raised
               ELSE /\ raised' = ConnectSmtpExcept(f.kind)
                    /\ ipc' = "failed"
                    /\ UNCHANGED << local_server, smtp_sock >>
       ELSE IF port = Port465
       THEN /\ log' = Append(log, Call("SMTP_SSL", f.kind, NoArg))
            /\ IF f = Ok
               THEN /\ local_server' = "SMTP_SSL"
                    /\ smtp_sock' = TRUE
                    /\ ipc' = "smtp_login"
                    /\ UNCHANGED raised
               ELSE /\ raised' = ConnectSmtpExcept(f.kind)
                    /\ ipc' = "failed"
                    /\ UNCHANGED << local_server, smtp_sock >>
       ELSE /\ raised' = ConnectSmtpExcept("ValueError")
            /\ ipc' = "failed"
            /\ UNCHANGED << log, local_server, smtp_sock >>
    /\ UNCHANGED << op, prev_op, at_call, url, port, server, imap, imap_sock, spc, cpc, result, to_email,
                    sent_folder, nsends >>

\* smtp.py:55: server.starttls() on the plain connection.
SmtpStartTls(f) ==
    /\ ipc = "starttls"
    /\ log' = Append(log, Call("starttls", f.kind, NoArg))
    /\ IF f = Ok
       THEN /\ ipc' = "smtp_login"
            /\ UNCHANGED << raised, smtp_sock >>
       ELSE /\ raised' = ConnectSmtpExcept(f.kind)
            /\ ipc' = "failed"
            /\ smtp_sock' = (smtp_sock /\ ~f.dropped)
    /\ UNCHANGED << op, prev_op, at_call, url, port, server, imap, local_server, imap_sock, spc, cpc, result,
                    to_email, sent_folder, nsends >>

\* smtp.py:61-63 and 29: server.login(); on success _connect_smtp returns the
\* session and __init__ stores it in self.server.
SmtpLogin(f) ==
    /\ ipc = "smtp_login"
    /\ log' = Append(log, Call("login", f.kind, NoArg))
    /\ IF f = Ok
       THEN /\ server' = local_server
            /\ ipc' = "connect_imap"
            /\ UNCHANGED << raised, smtp_sock >>
       ELSE /\ raised' = ConnectSmtpExcept(f.kind)
            /\ ipc' = "failed"
            /\ smtp_sock' = (smtp_sock /\ ~f.dropped)
            /\ UNCHANGED server
    /\ UNCHANGED << op, prev_op, at_call, url, port, imap, local_server, imap_sock, spc, cpc, result,
                    to_email, sent_folder, nsends >>

\* smtp.py:39-40: imap_url is derived from self.url and
\* imaplib.IMAP4_SSL(imap_url, 993) is called.
ImapOpen(f) ==
    /\ ipc = "connect_imap"
    /\ log' = Append(log, Call("IMAP4_SSL", f.kind, imap_url(url)))
    /\ IF f = Ok
       THEN /\ imap_sock' = TRUE
            /\ ipc' = "imap_login"
            /\ UNCHANGED raised
       ELSE /\ raised' = ConnectImapExcept(f.kind)
            /\ ipc' = "failed"
            /\ UNCHANGED imap_sock
    /\ UNCHANGED << op, prev_op, at_call, url, port, server, imap, local_server, smtp_sock, spc, cpc, result,
                    to_email, sent_folder, nsends >>

\* smtp.py:41-43 and 30-31: imap.login(); on success _connect_imap returns the
\* session, __init__ stores it in self.imap and returns the connector.
ImapLogin(f) ==
    /\ ipc = "imap_login"
    /\ log' = Append(log, Call("imap_login", f.kind, NoArg))
    /\ IF f = Ok
       THEN /\ imap' = "IMAP4_SSL"
            /\ ipc' = "done"
            /\ UNCHANGED << raised, imap_sock >>
       ELSE /\ raised' = ConnectImapExcept(f.kind)
            /\ ipc' = "failed"
            /\ imap_sock' = (imap_sock /\ ~f.dropped)
            /\ UNCHANGED imap
    /\ UNCHANGED << op, prev_op, at_call, url, port, server, local_server, smtp_sock, spc, cpc, result,
                    to_email, sent_folder, nsends >>

----------------------------------------------------------------------------
(* send() *)

BuilderOutcomes == {"ok", "raise"}

\* smtp.py:129: the SMTPResponse of the successful path; error and
\* error_code are not passed.
SendSuccess(to) ==
    [returned |-> TRUE, success |-> TRUE, from_email |-> Login, to_email |-> to]

\* Mutant of SendExcept: the message leaves out the recipient.
SendExceptOmitsRecipient(to, e) ==
    [returned |-> TRUE, success |-> FALSE, from_email |-> Login, to_email |-> to,
     error |-> << "Erro ao enviar e-mail: ", e >>,
     error_code |-> ErrorCode]

\* smtp.py:131-134: the except clause of send(): the message names to_email
\* and the exception, the code is 500.
SendExcept(to, e) ==
    [returned |-> TRUE, success |-> FALSE, from_email |-> Login, to_email |-> to,
     error |-> << "Erro ao enviar e-mail para ", to, ": ", e >>,
     error_code |-> ErrorCode]

\* A call on a session whose socket is gone raises whatever the server would say.
OnSocket(sock, f) == IF sock THEN f ELSE [kind |-> "SMTPException", dropped |-> TRUE]

\* smtp.py:116: send(subject, body, to_email) is called and the Email is
\* built; a builder failure leaves send() at once.
Send(to, b) ==
    /\ ipc = "done"
    /\ Idle
    /\ nsends < MaxSends
    /\ nsends' = nsends + 1
    /\ op' = "send"
    /\ prev_op' = op
    /\ at_call' = Handles
    /\ log' = << >>
    /\ result' = NoResult
    /\ sent_folder' = << >>
    /\ IF b = "ok"
       THEN /\ spc' = "sendmail"
            /\ to_email' = to
            /\ raised' = NoExc
       ELSE /\ spc' = "idle"
            /\ to_email' = "none"
            /\ raised' = [kind |-> "BuilderError", msg |-> "Email", cause |-> "none"]
    /\ UNCHANGED << url, port, server, imap, local_server, smtp_sock, imap_sock, ipc, cpc >>

\* Mutant of SendMail: a failed transmit is tried a second time.
SendMailTwice(f) ==
    /\ spc = "sendmail"
    /\ IF server = "None"
       THEN /\ result' = SendExcept(to_email, "AttributeError")
            /\ spc' = "idle"
            /\ UNCHANGED << log, smtp_sock >>
       ELSE LET g == OnSocket(smtp_sock, f) IN
            /\ IF g = Ok
               THEN /\ log' = Append(log, Call("sendmail", g.kind, NoArg))
                    /\ spc' = "find_sent_folder"
                    /\ UNCHANGED << result, smtp_sock >>
               ELSE /\ log' = log \o << Call("sendmail", g.kind, NoArg),
                                        Call("sendmail", "ok", NoArg) >>
                    /\ spc' = "find_sent_folder"
                    /\ UNCHANGED << result, smtp_sock >>
    /\ UNCHANGED << op, prev_op, at_call, url, port, server, imap, local_server, imap_sock, ipc, cpc, raised,
                    to_email, sent_folder, nsends >>

\* Mutant of SendMail: a failed transmit drops the session, self.server is
\* set to None.
SendMailClearsOnFailure(f) ==
    /\ spc = "sendmail"
    /\ IF server = "None"
       THEN /\ result' = SendExcept(to_email, "AttributeError")
            /\ spc' = "idle"
            /\ UNCHANGED << log, smtp_sock, server >>
       ELSE LET g == OnSocket(smtp_sock, f) IN
            /\ log' = Append(log, Call("sendmail", g.kind, NoArg))
            /\ IF g = Ok
               THEN /\ spc' = "find_sent_folder"
                    /\ UNCHANGED << result, smtp_sock, server >>
               ELSE /\ result' = SendExcept(to_email, g.kind)
                    /\ spc' = "idle"
                    /\ smtp_sock' = FALSE
                    /\ server' = "None"
    /\ UNCHANGED << op, prev_op, at_call, url, port, imap, local_server, imap_sock, ipc, cpc,
                    raised, to_email, sent_folder, nsends >>

\* Mutant of SendMail: the lookup of sendmail is outside the try block, on a
\* None handle its AttributeError leaves send().
SendMailNoneEscapes(f) ==
    /\ spc = "sendmail"
    /\ IF server = "None"
       THEN /\ raised' = [kind |-> "AttributeError", msg |-> "sendmail", cause |-> "none"]
            /\ spc' = "idle"
            /\ UNCHANGED << log, smtp_sock, result >>
       ELSE LET g == OnSocket(smtp_sock, f) IN
            /\ log' = Append(log, Call("sendmail", g.kind, NoArg))
            /\ UNCHANGED raised
            /\ IF g = Ok
               THEN /\ spc' = "find_sent_folder"
                    /\ UNCHANGED << result, smtp_sock >>
               ELSE /\ result' = SendExcept(to_email, g.kind)
                    /\ spc' = "idle"
                    /\ smtp_sock' = (smtp_sock /\ ~g.dropped)
    /\ UNCHANGED << op, prev_op, at_call, url, port, server, imap, local_server, imap_sock,
                    ipc, cpc, to_email, sent_folder, nsends >>

\* smtp.py:119-121: self.server.sendmail(...).  With self.server None the
\* attribute lookup raises and no call is made.
SendMail(f) ==
    /\ spc = "sendmail"
    /\ IF server = "None"
       THEN /\ result' = SendExcept(to_email, "AttributeError")
            /\ spc' = "idle"
            /\ UNCHANGED << log, smtp_sock >>
       ELSE LET g == OnSocket(smtp_sock, f) IN
            /\ log' = Append(log, Call("sendmail", g.kind, NoArg))
            /\ IF g = Ok
               THEN /\ spc' = "find_sent_folder"
                    /\ UNCHANGED << result, smtp_sock >>
               ELSE /\ result' = SendExcept(to_email, g.kind)
                    /\ spc' = "idle"
                    /\ smtp_sock' = (smtp_sock /\ ~g.dropped)
    /\ UNCHANGED << op, prev_op, at_call, url, port, server, imap, local_server, imap_sock, ipc, cpc, raised,
                    to_email, sent_folder, nsends >>

\* smtp.py:124 and 149-163: self.imap.list() and the scan of its answer.
FindSentFolder(f, mailboxes) ==
    /\ spc = "find_sent_folder"
    /\ IF imap = "None"
       THEN /\ result' = SendExcept(to_email, "AttributeError")
            /\ spc' = "idle"
            /\ UNCHANGED << log, imap_sock, sent_folder >>
       ELSE LET g == OnSocket(imap_sock, f)
                r == find_sent_folder(mailboxes)
            IN
            /\ log' = Append(log, Call("list", g.kind, IF g = Ok THEN mailboxes ELSE NoArg))
            /\ IF g # Ok
               THEN /\ result' = SendExcept(to_email, g.kind)
                    /\ spc' = "idle"
                    /\ imap_sock' = (imap_sock /\ ~g.dropped)
                    /\ UNCHANGED sent_folder
               ELSE IF r.raises
               THEN /\ result' = SendExcept(to_email, r.value)
                    /\ spc' = "idle"
                    /\ UNCHANGED << imap_sock, sent_folder >>
               ELSE /\ sent_folder' = r.value
                    /\ spc' = "append"
                    /\ UNCHANGED << result, imap_sock >>
    /\ UNCHANGED << op, prev_op, at_call, url, port, server, imap, local_server, smtp_sock, ipc, cpc, raised,
                    to_email, nsends >>

\* Mutant of ImapAppend: the append is outside the try block, its fault
\* leaves send().
ImapAppendUncaught(f) ==
    /\ spc = "append"
    /\ IF imap = "None"
       THEN /\ raised' = [kind |-> "AttributeError", msg |-> "append", cause |-> "none"]
            /\ UNCHANGED << log, imap_sock, result >>
       ELSE LET g == OnSocket(imap_sock, f) IN
            /\ log' = Append(log, Call("append", g.kind, sent_folder))
            /\ IF g = Ok
               THEN /\ result' = SendSuccess(to_email)
                    /\ UNCHANGED << imap_sock, raised >>
               ELSE /\ raised' = [kind |-> g.kind, msg |-> "append", cause |-> "none"]
                    /\ imap_sock' = (imap_sock /\ ~g.dropped)
                    /\ UNCHANGED result
    /\ spc' = "idle"
    /\ UNCHANGED << op, prev_op, at_call, url, port, server, imap, local_server, smtp_sock, ipc, cpc,
                    to_email, sent_folder, nsends >>

\* Mutant of ImapAppend: the message was transmitted, so a failed append is
\* still reported as a success.
ImapAppendFailureIsSuccess(f) ==
    /\ spc = "append"
    /\ IF imap = "None"
       THEN /\ result' = SendSuccess(to_email)
            /\ UNCHANGED << log, imap_sock >>
       ELSE LET g == OnSocket(imap_sock, f) IN
            /\ log' = Append(log, Call("append", g.kind, sent_folder))
            /\ result' = SendSuccess(to_email)
            /\ imap_sock' = (imap_sock /\ ~g.dropped)
    /\ spc' = "idle"
    /\ UNCHANGED << op, prev_op, at_call, url, port, server, imap, local_server, smtp_sock, ipc, cpc, raised,
                    to_email, sent_folder, nsends >>

\* smtp.py:125-129: self.imap.append(sent_folder, ...) and the return.
ImapAppend(f) ==
    /\ spc = "append"
    /\ IF imap = "None"
       THEN /\ result' = SendExcept(to_email, "AttributeError")
            /\ UNCHANGED << log, imap_sock >>
       ELSE LET g == OnSocket(imap_sock, f) IN
            /\ log' = Append(log, Call("append", g.kind, sent_folder))
            /\ IF g = Ok
               THEN /\ result' = SendSuccess(to_email)
                    /\ UNCHANGED imap_sock
               ELSE /\ result' = SendExcept(to_email, g.kind)
                    /\ imap_sock' = (imap_sock /\ ~g.dropped)
    /\ spc' = "idle"
    /\ UNCHANGED << op, prev_op, at_call, url, port, server, imap, local_server, smtp_sock, ipc, cpc, raised,
                    to_email, sent_folder, nsends >>

----------------------------------------------------------------------------
(* close_connection() *)

\* Mutant of CloseSmtp: the `is not None` test is missing and the socket
\* test is outside the try, so a call on a closed connector raises.
CloseSmtpUnguarded(f) ==
    /\ ipc = "done"
    /\ Idle
    /\ op' = "close"
    /\ prev_op' = op
    /\ at_call' = Handles
    /\ result' = NoResult
    /\ IF server # "None"
       THEN /\ IF smtp_sock
               THEN log' = << Call("quit", f.kind, NoArg) >>
               ELSE log' = << Call("logger.warning", "ok", NoArg) >>
            /\ smtp_sock' = FALSE
            /\ server' = "None"
            /\ cpc' = "imap"
            /\ raised' = NoExc
       ELSE /\ log' = << >>
            /\ cpc' = "idle"
            /\ raised' = [kind |-> "AttributeError", msg |-> "sock", cause |-> "none"]
            /\ UNCHANGED << smtp_sock, server >>
    /\ UNCHANGED << url, port, imap, local_server, imap_sock, ipc, spc,
                    to_email, sent_folder, nsends >>

\* Mutant of CloseSmtp: the except clause is missing, a fault of quit()
\* leaves close_connection() after the `finally`.
CloseSmtpQuitFaultEscapes(f) ==
    /\ ipc = "done"
    /\ Idle
    /\ op' = "close"
    /\ prev_op' = op
    /\ at_call' = Handles
    /\ result' = NoResult
    /\ IF server # "None"
       THEN /\ IF smtp_sock
               THEN /\ log' = << Call("quit", f.kind, NoArg) >>
                    /\ IF f = Ok
                       THEN /\ cpc' = "imap"
                            /\ raised' = NoExc
                       ELSE /\ cpc' = "idle"
                            /\ raised' = [kind |-> f.kind, msg |-> "quit", cause |-> "none"]
               ELSE /\ log' = << Call("logger.warning", "ok", NoArg) >>
                    /\ cpc' = "imap"
                    /\ raised' = NoExc
            /\ smtp_sock' = FALSE
            /\ server' = "None"
       ELSE /\ log' = << >>
            /\ cpc' = "imap"
            /\ raised' = NoExc
            /\ UNCHANGED << smtp_sock, server >>
    /\ UNCHANGED << url, port, imap, local_server, imap_sock, ipc, spc,
                    to_email, sent_folder, nsends >>

\* Mutant of CloseSmtp: the test of server.sock is missing, quit() is
\* called on a session without a socket and raises.
CloseSmtpQuitsWithoutSock(f) ==
    /\ ipc = "done"
    /\ Idle
    /\ op' = "close"
    /\ prev_op' = op
    /\ at_call' = Handles
    /\ result' = NoResult
    /\ cpc' = "imap"
    /\ raised' = NoExc
    /\ IF server # "None"
       THEN /\ log' = << Call("quit", OnSocket(smtp_sock, f).kind, NoArg) >>
            /\ smtp_sock' = FALSE
            /\ server' = "None"
       ELSE /\ log' = << >>
            /\ UNCHANGED << smtp_sock, server >>
    /\ UNCHANGED << url, port, imap, local_server, imap_sock, ipc, spc,
                    to_email, sent_folder, nsends >>

\* smtp.py:74-84: the SMTP leg: quit() when the socket is there, a warning
\* when it is not (the one logger call the log records), any exception
\* logged; `finally` clears the handle.
CloseSmtp(f) ==
    /\ ipc = "done"
    /\ Idle
    /\ cpc' = "imap"
    /\ op' = "close"
    /\ prev_op' = op
    /\ at_call' = Handles
    /\ raised' = NoExc
    /\ result' = NoResult
    /\ IF server # "None"
       THEN /\ IF smtp_sock
               THEN log' = << Call("quit", f.kind, NoArg) >>
               ELSE log' = << Call("logger.warning", "ok", NoArg) >>
            /\ smtp_sock' = FALSE
            /\ server' = "None"
       ELSE /\ log' = << >>
            /\ UNCHANGED << smtp_sock, server >>
    /\ UNCHANGED << url, port, imap, local_server, imap_sock, ipc, spc,
                    to_email, sent_folder, nsends >>

\* Mutant of CloseImap: the `finally` that clears self.imap is missing.
CloseImapKeepsHandle(f) ==
    /\ cpc = "imap"
    /\ cpc' = "idle"
    /\ IF imap # "None"
       THEN /\ log' = Append(log, Call("logout", f.kind, NoArg))
            /\ imap_sock' = (imap_sock /\ f # Ok /\ ~f.dropped)
       ELSE UNCHANGED << log, imap_sock >>
    /\ UNCHANGED imap
    /\ UNCHANGED << op, prev_op, at_call, url, port, server, local_server, smtp_sock, ipc, spc, raised, result,
                    to_email, sent_folder, nsends >>

\* smtp.py:86-93: the IMAP leg: logout(), any exception logged; `finally`
\* clears the handle.  close_connection() returns.
CloseImap(f) ==
    /\ cpc = "imap"
    /\ cpc' = "idle"
    /\ IF imap # "None"
       THEN /\ log' = Append(log, Call("logout", f.kind, NoArg))
            /\ imap_sock' = (imap_sock /\ f # Ok /\ ~f.dropped)
            /\ imap' = "None"
       ELSE UNCHANGED << log, imap_sock, imap >>
    /\ UNCHANGED << op, prev_op, at_call, url, port, server, local_server, smtp_sock, ipc, spc, raised, result,
                    to_email, sent_folder, nsends >>

----------------------------------------------------------------------------

Init ==
    /\ port = 0
    /\ server = "unset"
    /\ imap = "unset"
    /\ local_server = "unset"
    /\ smtp_sock = FALSE
    /\ imap_sock = FALSE
    /\ ipc = "none"
    /\ spc = "idle"
    /\ cpc = "idle"
    /\ log = << >>
    /\ raised = NoExc
    /\ result = NoResult
    /\ to_email = "none"
    /\ sent_folder = << >>
    /\ nsends = 0
    /\ op = "none"
    /\ prev_op = "none"
    /\ at_call = [server |-> "unset", imap |-> "unset", sock |-> FALSE]
    /\ url = << >>

Next ==
    \/ \E p \in Ports, u \in Urls : New(p, u)
    \/ \E f \in OpenOutcomes : SmtpOpen(f)
    \/ \E f \in Outcomes : SmtpStartTls(f)
    \/ \E f \in Outcomes : SmtpLogin(f)
    \/ \E f \in OpenOutcomes : ImapOpen(f)
    \/ \E f \in Outcomes : ImapLogin(f)
    \/ \E to \in Recipients, b \in BuilderOutcomes : Send(to, b)
    \/ \E f \in Outcomes : SendMail(f)
    \/ \E f \in Outcomes, m \in Listings : FindSentFolder(f, m)
    \/ \E f \in Outcomes : ImapAppend(f)
    \/ \E f \in Outcomes : CloseSmtp(f)
    \/ \E f \in Outcomes : CloseImap(f)

Spec == Init /\ [][Next]_vars

----------------------------------------------------------------------------
(* The resolver on every listing up to a length: send() after a transmit
   that succeeded, with the answer of imap.list() drawn from all listings
   over a pool of entries. *)

MaxListing == 3

PlainSent == << "(", ")", " ", "\"", "/", "\"", " ", "\"", "S", "e", "n", "t", "\"" >>
TwoLevels == << "a", " ", "\"", ".", "\"", " ", "b", " ", "\"", ".", "\"", " ", "S", "E", "N", "T" >>
Overlap == << "s", "e", "n", "t", " ", "\"", ".", "\"", " ", "\"", ".", "\"", " ", "z" >>
TrailingDelimiter == << "S", "e", "n", "t", " ", "\"", ".", "\"", " " >>
TwoProviders == << "Y", "a", "h", "o", "o", " ", "G", "M", "A", "I", "L", " ", "s", "e", "n", "t" >>
AolIcloud == << "i", "C", "l", "o", "u", "d", " ", "A", "O", "L", " ", "S", "e", "n", "t" >>
GmailTrash == << "[", "G", "m", "a", "i", "l", "]", "/", "T", "r", "a", "s", "h" >>

MailboxPool == { Inbox, GmailSent, DotSent, PlainSent, TwoLevels, Overlap,
                 TrailingDelimiter, TwoProviders, AolIcloud, GmailTrash }

\* What imap.list() may answer: the entries of the mailboxes, or the single
\* None that imaplib gives when the server lists no mailbox.
AllListings ==
    { << PyNone >> } \cup UNION { [1..k -> MailboxPool] : k \in 1..MaxListing }

\* smtp.py:116-121: a connector built on port 587 whose send() has built the
\* Email and transmitted it.
InitResolver ==
    /\ port = Port587
    /\ url = << "s", "m", "t", "p", ".", "e", "x", "a", "m", "p", "l", "e", ".", "c", "o", "m" >>
    /\ server = "SMTP"
    /\ imap = "IMAP4_SSL"
    /\ local_server = "SMTP"
    /\ smtp_sock = TRUE
    /\ imap_sock = TRUE
    /\ ipc = "done"
    /\ spc = "find_sent_folder"
    /\ cpc = "idle"
    /\ log = << Call("sendmail", "ok", NoArg) >>
    /\ raised = NoExc
    /\ result = NoResult
    /\ to_email = "ana@example.com"
    /\ sent_folder = << >>
    /\ nsends = 1
    /\ op = "send"
    /\ prev_op = "init"
    /\ at_call = [server |-> "SMTP", imap |-> "IMAP4_SSL", sock |-> TRUE]

\* smtp.py:124: imap.list() answers with any of the listings.
ResolveListing ==
    /\ spc = "find_sent_folder"
    /\ \E m \in AllListings : FindSentFolder(Ok, m)

NextResolver ==
    \/ ResolveListing
    \/ ImapAppend(Ok)

SpecResolver == InitResolver /\ [][NextResolver]_vars

----------------------------------------------------------------------------
(* send() and close_connection() on two threads.  Neither method takes a
   lock, so the threads interleave between any two of their reads of a
   handle, their library calls and their assignments.  A thread that has
   read a handle holds the session object: its call goes to that object
   whatever self.server or self.imap has become since. *)

SendCallNames == {"sendmail", "list", "append"}

IsSendCall(c) == c.call \in SendCallNames

IsCloseCall(c) == c.call \notin SendCallNames

\* smtp.py:116: send() is called while close_connection() may be running;
\* the Email is built, a builder failure leaves send() at once.  The log
\* keeps the calls of close_connection() and drops those of earlier sends.
SendCalled(to, b) ==
    /\ ipc = "done"
    /\ spc = "idle"
    /\ nsends < MaxSends
    /\ nsends' = nsends + 1
    /\ op' = "send"
    /\ prev_op' = op
    /\ at_call' = Handles
    /\ log' = SelectSeq(log, IsCloseCall)
    /\ result' = NoResult
    /\ sent_folder' = << >>
    /\ IF b = "ok"
       THEN /\ spc' = "get_server"
            /\ to_email' = to
            /\ raised' = NoExc
       ELSE /\ spc' = "idle"
            /\ to_email' = "none"
            /\ raised' = [kind |-> "BuilderError", msg |-> "Email", cause |-> "none"]
    /\ UNCHANGED << url, port, server, imap, local_server, smtp_sock,
                    imap_sock, ipc, cpc >>

\* smtp.py:120: the read of self.server for .sendmail; on None the
\* attribute lookup raises inside the try block.
GetServer ==
    /\ spc = "get_server"
    /\ IF server = "None"
       THEN /\ result' = SendExcept(to_email, "AttributeError")
            /\ spc' = "idle"
       ELSE /\ spc' = "sendmail_call"
            /\ UNCHANGED result
    /\ UNCHANGED << op, prev_op, at_call, url, port, server, imap,
                    local_server, smtp_sock, imap_sock, ipc, cpc, log,
                    raised, to_email, sent_folder, nsends >>

\* smtp.py:120-121: sendmail() on the session that was read.
ServerSendmail(f) ==
    /\ spc = "sendmail_call"
    /\ LET g == OnSocket(smtp_sock, f) IN
       /\ log' = Append(log, Call("sendmail", g.kind, NoArg))
       /\ IF g = Ok
          THEN /\ spc' = "get_imap_list"
               /\ UNCHANGED << result, smtp_sock >>
          ELSE /\ result' = SendExcept(to_email, g.kind)
               /\ spc' = "idle"
               /\ smtp_sock' = (smtp_sock /\ ~g.dropped)
    /\ UNCHANGED << op, prev_op, at_call, url, port, server, imap,
                    local_server, imap_sock, ipc, cpc, raised, to_email,
                    sent_folder, nsends >>

\* smtp.py:124 and 149: the read of self.imap for .list in
\* _find_sent_folder.
GetImapForList ==
    /\ spc = "get_imap_list"
    /\ IF imap = "None"
       THEN /\ result' = SendExcept(to_email, "AttributeError")
            /\ spc' = "idle"
       ELSE /\ spc' = "list_call"
            /\ UNCHANGED result
    /\ UNCHANGED << op, prev_op, at_call, url, port, server, imap,
                    local_server, smtp_sock, imap_sock, ipc, cpc, log,
                    raised, to_email, sent_folder, nsends >>

\* smtp.py:149-163: list() on the session that was read and the scan of its
\* answer.
ImapList(f, mailboxes) ==
    /\ spc = "list_call"
    /\ LET g == OnSocket(imap_sock, f)
           r == find_sent_folder(mailboxes)
       IN
       /\ log' = Append(log, Call("list", g.kind, IF g = Ok THEN mailboxes ELSE NoArg))
       /\ IF g # Ok
          THEN /\ result' = SendExcept(to_email, g.kind)
               /\ spc' = "idle"
               /\ imap_sock' = (imap_sock /\ ~g.dropped)
               /\ UNCHANGED sent_folder
          ELSE IF r.raises
          THEN /\ result' = SendExcept(to_email, r.value)
               /\ spc' = "idle"
               /\ UNCHANGED << imap_sock, sent_folder >>
          ELSE /\ sent_folder' = r.value
               /\ spc' = "get_imap_append"
               /\ UNCHANGED << result, imap_sock >>
    /\ UNCHANGED << op, prev_op, at_call, url, port, server, imap,
                    local_server, smtp_sock, ipc, cpc, raised, to_email,
                    nsends >>

\* Mutant of GetImapForAppend: the archive step is outside the try block,
\* the lookup of append on None leaves send() as an AttributeError.
GetImapForAppendUncaught ==
    /\ spc = "get_imap_append"
    /\ IF imap = "None"
       THEN /\ raised' = [kind |-> "AttributeError", msg |-> "append", cause |-> "none"]
            /\ spc' = "idle"
            /\ UNCHANGED result
       ELSE /\ spc' = "append_call"
            /\ UNCHANGED << result, raised >>
    /\ UNCHANGED << op, prev_op, at_call, url, port, server, imap,
                    local_server, smtp_sock, imap_sock, ipc, cpc, log,
                    to_email, sent_folder, nsends >>

\* smtp.py:126: the read of self.imap for .append.
GetImapForAppend ==
    /\ spc = "get_imap_append"
    /\ IF imap = "None"
       THEN /\ result' = SendExcept(to_email, "AttributeError")
            /\ spc' = "idle"
       ELSE /\ spc' = "append_call"
            /\ UNCHANGED result
    /\ UNCHANGED << op, prev_op, at_call, url, port, server, imap,
                    local_server, smtp_sock, imap_sock, ipc, cpc, log,
                    raised, to_email, sent_folder, nsends >>

\* smtp.py:126-129: append() on the session that was read and the return.
ImapAppendCall(f) ==
    /\ spc = "append_call"
    /\ spc' = "idle"
    /\ LET g == OnSocket(imap_sock, f) IN
       /\ log' = Append(log, Call("append", g.kind, sent_folder))
       /\ IF g = Ok
          THEN /\ result' = SendSuccess(to_email)
               /\ UNCHANGED imap_sock
          ELSE /\ result' = SendExcept(to_email, g.kind)
               /\ imap_sock' = (imap_sock /\ ~g.dropped)
    /\ UNCHANGED << op, prev_op, at_call, url, port, server, imap,
                    local_server, smtp_sock, ipc, cpc, raised, to_email,
                    sent_folder, nsends >>

\* smtp.py:74: close_connection() is called while send() may be running;
\* the test of self.server.  The log keeps the calls of the send in
\* progress.
CloseCalled ==
    /\ ipc = "done"
    /\ cpc = "idle"
    /\ op' = "close"
    /\ prev_op' = op
    /\ at_call' = Handles
    /\ log' = SelectSeq(log, IsSendCall)
    /\ IF server # "None"
       THEN cpc' = "test_sock"
       ELSE cpc' = "test_imap"
    /\ UNCHANGED << url, port, server, imap, local_server, smtp_sock,
                    imap_sock, ipc, spc, raised, result, to_email,
                    sent_folder, nsends >>

\* smtp.py:76 and 79-80: the test of self.server.sock; without a socket the
\* warning is logged.
TestServerSock ==
    /\ cpc = "test_sock"
    /\ IF smtp_sock
       THEN /\ cpc' = "quit_call"
            /\ UNCHANGED log
       ELSE /\ cpc' = "clear_server"
            /\ log' = Append(log, Call("logger.warning", "ok", NoArg))
    /\ UNCHANGED << op, prev_op, at_call, url, port, server, imap,
                    local_server, smtp_sock, imap_sock, ipc, spc, raised,
                    result, to_email, sent_folder, nsends >>

\* smtp.py:77 and 81-82: quit(); any exception is logged.  The socket may
\* have gone since it was tested.
ServerQuit(f) ==
    /\ cpc = "quit_call"
    /\ cpc' = "clear_server"
    /\ log' = Append(log, Call("quit", OnSocket(smtp_sock, f).kind, NoArg))
    /\ smtp_sock' = FALSE
    /\ UNCHANGED << op, prev_op, at_call, url, port, server, imap,
                    local_server, imap_sock, ipc, spc, raised, result,
                    to_email, sent_folder, nsends >>

\* smtp.py:83-84: `finally` clears self.server.
ClearServer ==
    /\ cpc = "clear_server"
    /\ cpc' = "test_imap"
    /\ server' = "None"
    /\ UNCHANGED << op, prev_op, at_call, url, port, imap, local_server,
                    smtp_sock, imap_sock, ipc, spc, log, raised, result,
                    to_email, sent_folder, nsends >>

\* smtp.py:86: the test of self.imap; on None close_connection() returns.
TestImap ==
    /\ cpc = "test_imap"
    /\ IF imap # "None"
       THEN cpc' = "logout_call"
       ELSE cpc' = "idle"
    /\ UNCHANGED << op, prev_op, at_call, url, port, server, imap,
                    local_server, smtp_sock, imap_sock, ipc, spc, log,
                    raised, result, to_email, sent_folder, nsends >>

\* smtp.py:88-91: logout(); any exception is logged.
ImapLogout(f) ==
    /\ cpc = "logout_call"
    /\ cpc' = "clear_imap"
    /\ log' = Append(log, Call("logout", f.kind, NoArg))
    /\ imap_sock' = (imap_sock /\ f # Ok /\ ~f.dropped)
    /\ UNCHANGED << op, prev_op, at_call, url, port, server, imap,
                    local_server, smtp_sock, ipc, spc, raised, result,
                    to_email, sent_folder, nsends >>

\* smtp.py:92-93: `finally` clears self.imap; close_connection() returns.
ClearImap ==
    /\ cpc = "clear_imap"
    /\ cpc' = "idle"
    /\ imap' = "None"
    /\ UNCHANGED << op, prev_op, at_call, url, port, server, local_server,
                    smtp_sock, imap_sock, ipc, spc, log, raised, result,
                    to_email, sent_folder, nsends >>

\* smtp.py:22-31: a connector built on port 587, neither method called yet.
InitConcurrent ==
    /\ port = Port587
    /\ url = << "s", "m", "t", "p", ".", "e", "x", "a", "m", "p", "l", "e", ".", "c", "o", "m" >>
    /\ server = "SMTP"
    /\ imap = "IMAP4_SSL"
    /\ local_server = "SMTP"
    /\ smtp_sock = TRUE
    /\ imap_sock = TRUE
    /\ ipc = "done"
    /\ spc = "idle"
    /\ cpc = "idle"
    /\ log = << >>
    /\ raised = NoExc
    /\ result = NoResult
    /\ to_email = "none"
    /\ sent_folder = << >>
    /\ nsends = 0
    /\ op = "init"
    /\ prev_op = "none"
    /\ at_call = [server |-> "unset", imap |-> "unset", sock |-> FALSE]

\* The steps of the thread in send().
SendThread ==
    \/ GetServer
    \/ \E f \in Outcomes : ServerSendmail(f)
    \/ GetImapForList
    \/ \E f \in Outcomes, m \in Listings : ImapList(f, m)
    \/ GetImapForAppend
    \/ \E f \in Outcomes : ImapAppendCall(f)

\* The steps of the thread in close_connection().
CloseThread ==
    \/ TestServerSock
    \/ \E f \in Outcomes : ServerQuit(f)
    \/ ClearServer
    \/ TestImap
    \/ \E f \in Outcomes : ImapLogout(f)
    \/ ClearImap

NextConcurrent ==
    \/ \E to \in Recipients, b \in BuilderOutcomes : SendCalled(to, b)
    \/ CloseCalled
    \/ SendThread
    \/ CloseThread

SpecConcurrent == InitConcurrent /\ [][NextConcurrent]_vars

----------------------------------------------------------------------------
(* Properties *)

Calls(l) == [i \in 1..Len(l) |-> l[i].call]

Count(l, name) == Cardinality({i \in DOMAIN l : l[i].call = name})

HasCall(l, name, out) == \E i \in DOMAIN l : l[i].call = name /\ l[i].out = out

\* A send() has been called and has left (returned or raised).
SendDone == op = "send" /\ spc = "idle"

\* The Email of the send() was built (smtp.py:116 did not raise).
Built == to_email # "none"

\* C1: once the Email is built, send() returns an SMTPResponse whatever
\* sendmail, list, the folder scan or append do, in the connected and in the
\* closed state; the only exception leaving send() is the builder's, and then
\* no SMTP or IMAP call was made.
C1_SendNeverRaisesOnceBuilt ==
    /\ (op = "send" /\ spc # "idle") => (Built /\ raised = NoExc)
    /\ (SendDone /\ Built) => (result.returned /\ raised = NoExc)
    /\ (SendDone /\ ~Built) =>
           (raised.kind = "BuilderError" /\ ~result.returned /\ log = << >>)

\* A send() returned a failure after its append raised.
C1_Witness ==
    /\ SendDone
    /\ result.returned
    /\ ~result.success
    /\ \E i \in DOMAIN log : log[i].call = "append" /\ log[i].out # "ok"

\* C2: a send() whose sendmail, list and append all completed returns
\* success with no error fields, made exactly the calls sendmail, list,
\* append in that order (one transmit, one append, the append after the
\* transmit); and a success is returned in no other case.
C2_SuccessPathOnce ==
    /\ (SendDone /\ HasCall(log, "sendmail", "ok") /\ HasCall(log, "list", "ok")
            /\ HasCall(log, "append", "ok")) =>
           /\ result = SendSuccess(to_email)
           /\ result.success
           /\ "error" \notin DOMAIN result
           /\ "error_code" \notin DOMAIN result
           /\ Count(log, "sendmail") = 1
           /\ Count(log, "append") = 1
           /\ \A i, j \in DOMAIN log :
                  (log[i].call = "sendmail" /\ log[j].call = "append") => i < j
    /\ (SendDone /\ result.returned /\ result.success) =>
           /\ Calls(log) = << "sendmail", "list", "append" >>
           /\ \A i \in DOMAIN log : log[i].out = "ok"

\* A send() returned success.
C2_Witness ==
    /\ SendDone
    /\ result.returned
    /\ result.success
    /\ Calls(log) = << "sendmail", "list", "append" >>

\* The transmit step of the send() raised: the sendmail call did, or the
\* lookup of sendmail on a None handle.
TransmitRaised ==
    /\ SendDone
    /\ Built
    /\ \/ log = << >>
       \/ (log[1].call = "sendmail" /\ log[1].out # "ok")

\* C3: when the transmit step raises, send() returns success=False with
\* error code 500 and a message containing the to_email the caller passed,
\* and neither list nor append is called.
C3_TransmitFailureReported ==
    TransmitRaised =>
        /\ result.returned
        /\ ~result.success
        /\ result.error_code = ErrorCode
        /\ \E k \in DOMAIN result.error : result.error[k] = to_email
        /\ to_email \in Recipients
        /\ Count(log, "list") = 0
        /\ Count(log, "append") = 0
        /\ Len(log) <= 1

\* A sendmail call raised.
C3_Witness ==
    /\ TransmitRaised
    /\ Len(log) = 1
    /\ log[1].call = "sendmail"
    /\ log[1].out # "ok"

\* The transmit of the send() succeeded and no append did: list, the folder
\* scan or append raised.
ArchiveFailed ==
    /\ SendDone
    /\ log # << >>
    /\ log[1] = Call("sendmail", "ok", NoArg)
    /\ ~HasCall(log, "append", "ok")

ConstructionFailed == op = "init" /\ ipc = "failed"

\* The connector was returned by the constructor and no send() or
\* close_connection() is in progress.
AtRest == ipc = "done" /\ Idle

ValidPorts == {Port587, Port465}

\* C5: when construction fails on either leg, no session is left open; in
\* particular the SMTP session that logged in is not left open when the
\* IMAP leg fails.  (The code closes nothing on the failure path.)
C5_NoSessionLeftOpen ==
    ConstructionFailed => (~smtp_sock /\ ~imap_sock)

\* C6: whenever the connector is at rest, self.server and self.imap are
\* both sessions or both None.
C6_HandlesBothOrNeither ==
    AtRest =>
        /\ server # "unset"
        /\ imap # "unset"
        /\ (server = "None") <=> (imap = "None")

\* close_connection() has returned and both handles are None.
C6_Witness ==
    /\ AtRest
    /\ op = "close"
    /\ server = "None"
    /\ imap = "None"
    /\ HasCall(log, "quit", "ok")

\* C7: with a port other than 587 and 465 the constructor fails without a
\* library call: no SMTP or IMAP connection, no STARTTLS, no login.
C7_InvalidPortNoIO ==
    (op = "init" /\ port \notin ValidPorts) =>
        /\ ipc \in {"connect_smtp", "failed"}
        /\ log = << >>
        /\ ~smtp_sock
        /\ ~imap_sock
        /\ server = "unset"
        /\ imap = "unset"

\* The constructor has raised for port 25.
C7_Witness ==
    /\ ConstructionFailed
    /\ port = 25
    /\ raised # NoExc

\* C8 as claimed: the error for an invalid port is a ConfigurationError, a
\* kind other than the ConnectionError of a failed connect or login.
C8_InvalidPortIsConfigurationError ==
    (ConstructionFailed /\ port \notin ValidPorts) =>
        (raised.kind = "ConfigurationError" /\ raised.kind # "ConnectionError")

\* C8 amended: the error for an invalid port is a ConnectionError raised
\* from the ValueError of the port test, the same kind as for a failed
\* connect or login.
C8_InvalidPortIsConnectionError ==
    /\ (ConstructionFailed /\ port \notin ValidPorts) =>
           /\ raised.kind = "ConnectionError"
           /\ raised.cause = "ValueError"
           /\ raised.msg = "Falha ao conectar ao servidor SMTP"
    /\ (ConstructionFailed /\ port \in ValidPorts) =>
           raised.kind = "ConnectionError"

\* The constructor has raised a ConnectionError for an invalid port.
C8_Witness ==
    /\ ConstructionFailed
    /\ port \notin ValidPorts
    /\ raised.kind = "ConnectionError"

IsPrefix(s, t) == Len(s) <= Len(t) /\ SubSeq(t, 1, Len(s)) = s

ImapLeg == << "IMAP4_SSL", "imap_login" >>

\* C9: the calls of the constructor are a prefix of SMTP, starttls, login
\* (port 587) or of SMTP_SSL, login (port 465), followed by the IMAP leg; a
\* login is preceded by a STARTTLS or a TLS connect that succeeded; a call
\* that failed is the last one.
C9_SmtpLegOrder ==
    op = "init" =>
        /\ port = Port587 =>
               IsPrefix(Calls(log), << "SMTP", "starttls", "login" >> \o ImapLeg)
        /\ port = Port465 =>
               IsPrefix(Calls(log), << "SMTP_SSL", "login" >> \o ImapLeg)
        /\ \A i \in DOMAIN log : log[i].call = "login" =>
               \E j \in 1..(i - 1) :
                   /\ log[j].call \in {"starttls", "SMTP_SSL"}
                   /\ log[j].out = "ok"
        /\ \A i \in DOMAIN log : log[i].out # "ok" =>
               (i = Len(log) /\ ipc = "failed")

\* On port 587 the login was reached after connect and STARTTLS.
C9_Witness ==
    /\ op = "init"
    /\ port = Port587
    /\ Calls(log) = << "SMTP", "starttls", "login" >>
    /\ log[3].out = "ok"

\* C10: whatever exception a connect, STARTTLS or login call raises, the
\* constructor raises a ConnectionError whose cause is that exception; no
\* exception leaves the constructor while its calls succeed.
C10_LegFaultsAreConnectionErrors ==
    /\ (ConstructionFailed /\ log # << >>) =>
           /\ log[Len(log)].out \in ExcKinds
           /\ raised.kind = "ConnectionError"
           /\ raised.cause = log[Len(log)].out
    /\ (op = "init" /\ ipc # "failed") => raised = NoExc

\* The IMAP login raised and the constructor raised a ConnectionError.
C10_Witness ==
    /\ ConstructionFailed
    /\ log # << >>
    /\ log[Len(log)].call = "imap_login"
    /\ log[Len(log)].out = "IMAP4Error"
    /\ raised.kind = "ConnectionError"

\* A close_connection() called right after a close_connection().
SecondClose == op = "close" /\ prev_op = "close"

\* C11: a close_connection() called right after another one raises
\* nothing, calls neither quit() nor logout() and leaves both handles None.
C11_SecondCloseDoesNothing ==
    SecondClose =>
        /\ raised = NoExc
        /\ Count(log, "quit") = 0
        /\ Count(log, "logout") = 0
        /\ log = << >>
        /\ server = "None"
        /\ imap = "None"
        /\ at_call.server = "None"
        /\ at_call.imap = "None"

\* The second close_connection() has returned.
C11_Witness ==
    /\ SecondClose
    /\ cpc = "idle"
    /\ server = "None"
    /\ imap = "None"

\* close_connection() has returned.
CloseDone == op = "close" /\ cpc = "idle"

\* C12: whatever quit() and logout() do, close_connection() returns
\* without an exception and with both handles None; the SMTP handle is None
\* once the SMTP leg is over, and logout() is called once whenever the IMAP
\* handle was set, also after a quit() that raised.
C12_CloseAlwaysClearsBoth ==
    /\ op = "close" =>
           /\ raised = NoExc
           /\ server = "None"
    /\ CloseDone =>
           /\ imap = "None"
           /\ at_call.imap # "None" => Count(log, "logout") = 1
           /\ (at_call.server # "None" /\ at_call.sock) =>
                  (log[1].call = "quit" /\ Count(log, "quit") = 1)

\* Both quit() and logout() raised and close_connection() returned.
C12_Witness ==
    /\ CloseDone
    /\ Calls(log) = << "quit", "logout" >>
    /\ log[1].out # "ok"
    /\ log[2].out # "ok"
    /\ server = "None"
    /\ imap = "None"

\* close_connection() was called with self.server set and its socket gone.
SeveredClose == op = "close" /\ at_call.server # "None" /\ ~at_call.sock

\* C13: close_connection() on a session whose socket is gone logs the
\* warning, does not call quit(), sets self.server to None and still calls
\* logout().
C13_SeveredSmtpClose ==
    SeveredClose =>
        /\ log[1] = Call("logger.warning", "ok", NoArg)
        /\ Count(log, "quit") = 0
        /\ server = "None"
        /\ raised = NoExc
        /\ cpc = "idle" =>
               /\ imap = "None"
               /\ Calls(log) = << "logger.warning", "logout" >>

\* The close of a severed session has returned after its logout().
C13_Witness ==
    /\ SeveredClose
    /\ cpc = "idle"
    /\ at_call.imap # "None"
    /\ HasCall(log, "logout", "ok")

\* old occurs in s at position i.
OccursAt(s, old, i) ==
    i + Len(old) - 1 <= Len(s) /\ SubSeq(s, i, i + Len(old) - 1) = old

\* s with its first occurrence of old replaced by new, the rest unchanged.
ReplaceFirst(s, old, new) ==
    IF \E i \in 1..Len(s) : OccursAt(s, old, i)
    THEN LET i == CHOOSE i \in 1..Len(s) :
                      /\ OccursAt(s, old, i)
                      /\ \A j \in 1..(i - 1) : ~OccursAt(s, old, j)
         IN  SubSeq(s, 1, i - 1) \o new \o SubSeq(s, i + Len(old), Len(s))
    ELSE s

\* C14: the host passed to IMAP4_SSL is self.url with only its first "smtp"
\* replaced by "imap", every later occurrence unchanged, and self.url itself
\* when it holds no "smtp".  (str.replace replaces every occurrence.)
C14_ImapHostFirstOccurrenceOnly ==
    \A i \in DOMAIN log :
        log[i].call = "IMAP4_SSL" =>
            log[i].arg = ReplaceFirst(url, SmtpWord, ImapWord)

\* word (in lower case) occurs in s, whatever the case of s.
ContainsNoCase(word, s) ==
    \E off \in 0..(Len(s) - Len(word)) :
        \A j \in 1..Len(word) : LowerChar(s[off + j]) = word[j]

\* imap.list() has answered in the send() in progress (or the last one).
ListAnswered == op = "send" /\ HasCall(log, "list", "ok")

\* The listing it answered with; a lone None is the listing without entries.
Listing ==
    LET m == log[CHOOSE i \in DOMAIN log : log[i].call = "list"].arg
    IN  IF m = << PyNone >> THEN << >> ELSE m

SentEntries == {i \in DOMAIN Listing : ContainsNoCase(SentWord, Listing[i])}

\* The first entry of the listing that contains "sent".
FirstSentEntry ==
    Listing[CHOOSE i \in SentEntries : \A j \in SentEntries : i <= j]

ProvidersIn(e) ==
    {k \in DOMAIN email_folders : ContainsNoCase(email_folders[k].provider, e)}

\* The resolver has returned to send().
Resolved == spc = "append" \/ (spc = "idle" /\ Count(log, "append") = 1)

\* C15: the folder is decided by the first entry of the listing that
\* contains "sent" in any case: when that entry contains a provider keyword
\* in any case, the folder is the one of the first such keyword in the order
\* of the table, whatever entries follow.
C15_FirstSentEntryProviderWins ==
    (ListAnswered /\ SentEntries # {} /\ ProvidersIn(FirstSentEntry) # {}) =>
        LET ks == ProvidersIn(FirstSentEntry)
            k0 == CHOOSE k \in ks : \A k2 \in ks : k <= k2
        IN  /\ Resolved
            /\ sent_folder = email_folders[k0].folder
            /\ \A i \in DOMAIN log :
                   log[i].call = "append" => log[i].arg = email_folders[k0].folder

\* The entry naming yahoo before gmail decided for gmail's folder, with a
\* plain "Sent" entry after it.
C15_Witness ==
    /\ ListAnswered
    /\ Listing = << GmailTrash, TwoProviders, PlainSent >>
    /\ HasCall(log, "append", "ok")
    /\ sent_folder = email_folders[1].folder

IsSuffix(t, s) == Len(t) <= Len(s) /\ SubSeq(s, Len(s) - Len(t) + 1, Len(s)) = t

\* C16: when the first entry containing "sent" holds no provider keyword,
\* the folder is the last segment of that entry split on ' "." ': the entry
\* itself when it holds no delimiter, otherwise the text after a delimiter
\* up to the end, itself without a delimiter; never None and never taken
\* from a later entry.
C16_FallbackLastSegment ==
    (ListAnswered /\ SentEntries # {} /\ ProvidersIn(FirstSentEntry) = {}) =>
        LET e == FirstSentEntry
            n == Len(e) - Len(sent_folder)
        IN  /\ Resolved
            /\ sent_folder # PyNone
            /\ IsSuffix(sent_folder, e)
            /\ ~Contains(Delimiter, sent_folder)
            /\ IF Contains(Delimiter, e)
               THEN /\ n >= Len(Delimiter)
                    /\ SubSeq(e, n - Len(Delimiter) + 1, n) = Delimiter
               ELSE sent_folder = e
            /\ \A i \in DOMAIN log : log[i].call = "append" => log[i].arg = sent_folder

\* The two-level entry gave its last segment although a Gmail entry follows.
C16_Witness ==
    /\ ListAnswered
    /\ Listing = << Inbox, TwoLevels, GmailSent >>
    /\ HasCall(log, "append", "ok")
    /\ sent_folder = << "S", "E", "N", "T" >>

\* C17: when no entry of the listing contains "sent" in any case, the
\* listing without entries included, the resolver returns None without
\* raising and send() calls append once, with None as the mailbox.  (For the
\* listing without entries imaplib hands over a lone None, and the scan
\* raises on it.)
C17_NoSentGivesNullAppend ==
    (SendDone /\ ListAnswered /\ SentEntries = {}) =>
        /\ Count(log, "append") = 1
        /\ \A i \in DOMAIN log : log[i].call = "append" => log[i].arg = PyNone
        /\ sent_folder = PyNone

\* C18: send() assigns neither handle: while it runs and after it has left
\* (with a success, with a failure or with the builder's exception)
\* self.server and self.imap are what they were when it was called.
C18_SendKeepsHandles ==
    op = "send" =>
        /\ server = at_call.server
        /\ imap = at_call.imap

\* A send() on a connected connector returned a failure and the handles are
\* still set.
C18_Witness ==
    /\ SendDone
    /\ Built
    /\ result.returned
    /\ ~result.success
    /\ server # "None"
    /\ imap # "None"
    /\ server = at_call.server

\* The send() in progress (or the last one) was called with both handles None.
SendAfterClose == op = "send" /\ at_call.server = "None" /\ at_call.imap = "None"

\* C19 as claimed: a send() after close_connection() does not raise, makes
\* no SMTP or IMAP call, returns success=False with code 500 and leaves both
\* handles None.
C19_SendAfterCloseNeverRaises ==
    (SendAfterClose /\ spc = "idle") =>
        /\ raised = NoExc
        /\ result.returned
        /\ ~result.success
        /\ result.error_code = ErrorCode
        /\ log = << >>
        /\ server = "None"
        /\ imap = "None"

\* C19 amended: a send() after close_connection() makes no SMTP or IMAP
\* call and leaves both handles None; once its Email is built it does not
\* raise and returns success=False with code 500; a builder failure still
\* leaves send() as an exception.
C19_SendAfterCloseFailsWithoutIO ==
    SendAfterClose =>
        /\ log = << >>
        /\ server = "None"
        /\ imap = "None"
        /\ (spc = "idle" /\ Built) =>
               /\ raised = NoExc
               /\ result.returned
               /\ ~result.success
               /\ result.error_code = ErrorCode
        /\ (spc = "idle" /\ ~Built) =>
               /\ raised.kind = "BuilderError"
               /\ ~result.returned

\* A send() after close_connection() has returned its failure.
C19_Witness ==
    /\ SendAfterClose
    /\ prev_op = "close"
    /\ spc = "idle"
    /\ Built
    /\ result.returned
    /\ ~result.success
    /\ log = << >>

\* The calls of the send in progress (or of the last one), in order.
SendCalls == SelectSeq(log, IsSendCall)

\* close_connection() is past its SMTP leg.
PastSmtpLeg == cpc \in {"test_imap", "logout_call", "clear_imap"}

\* C20: with close_connection() and send() interleaved step by step, a send()
\* whose Email is built never raises, is never stuck and ends with a result;
\* a result with success=True has behind it a sendmail, a list and an append
\* of that send() that all returned; close_connection() never raises, clears
\* self.server before its IMAP leg and returns with both handles None.
C20_ConcurrentCloseAndSend ==
    /\ [](/\ Built => raised = NoExc
          /\ ~Built => ~result.returned
          /\ (spc = "idle" /\ Built) => result.returned
          /\ spc # "idle" => (Built /\ ~result.returned /\ ENABLED SendThread)
          /\ (result.returned /\ result.success) =>
                 /\ Calls(SendCalls) = << "sendmail", "list", "append" >>
                 /\ \A i \in DOMAIN SendCalls : SendCalls[i].out = "ok"
          /\ cpc # "idle" => ENABLED CloseThread
          /\ PastSmtpLeg => server = "None")
    /\ [][(cpc # "idle" /\ cpc' = "idle") =>
              (server' = "None" /\ imap' = "None" /\ raised' = raised)]_vars

\* close_connection() ran between the sendmail and the list of a send():
\* both have returned, the send with a failure, the handles are None.
C20_Witness ==
    /\ spc = "idle"
    /\ cpc = "idle"
    /\ result.returned
    /\ ~result.success
    /\ server = "None"
    /\ imap = "None"
    /\ \E i, j, k \in DOMAIN log :
           /\ i < j
           /\ j < k
           /\ log[i] = Call("sendmail", "ok", NoArg)
           /\ log[j].call = "quit"
           /\ log[k].call = "list"

====
